---- MODULE Spec2Model ----
(***************************************************************************)
(* The bounded-queue producer/consumer pipelines of                        *)
(* parallel_change_blob_access_tier.py ("tier") and                        *)
(* parallel_delete_blobs.py ("delete"): one producer thread that batches   *)
(* the lines of an input file into blocks, n_threads consumers that apply  *)
(* the per-item operation to every item of each dequeued block, a bounded  *)
(* joinable queue between them and the shared progress counter.            *)
(*                                                                         *)
(* Further specifications in this module, each with its own initial state: *)
(*   ItemSpec     successive set_access_tier calls on one blob             *)
(*   EnumSpec,                                                             *)
(*   CounterSpec  parallel_enumerate_blobs.py and its shared Counter       *)
(*   StreamSpec   StreamingGeospatialDataset under a DataLoader            *)
(*   ListSpec     sas_blob_utils.list_blobs_in_container                   *)
(*   DryRunSpec   the pipelines with execute_changes off                   *)
(***************************************************************************)
EXTENDS Integers, Sequences, FiniteSets, TLC

(* ------------------------------ bounds -------------------------------- *)

\* longest input file, in lines
MaxLines == 4
\* most blank lines in an input file
MaxBlank == 1
\* largest number of consumers (n_threads)
MaxThreads == 2
\* largest producer_block_size
MaxBlockSize == 2
\* largest blobs_to_skip
MaxSkip == 1

\* longest prefix of a prefix list, in characters
MaxPrefixLen == 2

\* most pages in the listing of one prefix
MaxPages == 2

\* most tiles in imagery_fns
MaxTiles == 3

\* most DataLoader workers
MaxLoaders == 2

\* most blobs in a container
MaxBlobs == 3

\* largest limit handed to list_blobs_in_container
MaxLimit == 2

(* ------------------------- program constants -------------------------- *)

\* parallel_enumerate_blobs.py
n_blobs_per_page == 5000
enumerate_n_print == 10000

\* path_utils.py
char_limit == 255

\* "Set to -1 to process all files"
debug_max_files == -1
n_print == 5000
valid_tiers == {"Hot", "Cool", "Archive"}

(* ------------------------------- state -------------------------------- *)

VARIABLES
    pipeline,              \* "tier" or "delete": which script runs
    input_file,            \* [exists, lines]: the file named by the caller
    access_tier,           \* target tier handed to the tier pipeline
    n_threads,             \* number of consumers
    producer_block_size,
    blobs_to_skip,
    verify_existence,      \* module flags read by the per-item operation
    verify_access_tier,
    execute_changes,       \* execute_changes / execute_deletions
    force_tier_on_inferred_blobs,
    main_pc,               \* position of the orchestrating (main) thread
    prod_pc,               \* position of the producer thread
    i_line,                \* number of lines the producer has consumed
    current_block,         \* the producer's block under construction
    q,                     \* blocks in the queue, oldest first
    unfinished_tasks,      \* the queue's count of blocks not yet task_done
    pushed,                \* history: every block put, in put order
    cnt,                   \* the shared Counter: [val, last_print]
    n_printed,             \* progress lines emitted by Counter.increment
    consumers,             \* per consumer: [pc, block, idx]
    calls,                 \* per item: invocations of the per-item operation
    \* one blob and successive set_access_tier calls on it
    remote,                \* the blob at the service: [exists, blob_tier, tier_inferred]
    item_log,              \* the calls made so far, oldest first
    \* parallel_enumerate_blobs.py
    prefixes,              \* the prefix list read from the prefix file
    container,             \* per prefix: the sizes of the pages of its listing
    enum,                  \* per prefix: the thread / process enumerating it
    enum_pc,               \* position of enumerate_blobs in the main thread
    lock,                  \* holder of the Counter's lock, 0 when free
    added,                 \* history: sum of the n of all increment calls
    lines,                 \* history: the progress lines printed
    \* StreamingGeospatialDataset under a DataLoader
    dataset,               \* [imagery_fns, num_workers] given by the caller
    loaders,               \* per DataLoader worker: its copy and its stream
    \* sas_blob_utils.list_blobs_in_container
    list_args,             \* the container listing and the arguments
    list_run               \* the call: [pc, pos, list_blobs, i, result]

vars == <<pipeline, input_file, access_tier, n_threads, producer_block_size,
          blobs_to_skip, verify_existence, verify_access_tier, execute_changes,
          force_tier_on_inferred_blobs, main_pc, prod_pc, i_line,
          current_block, q, unfinished_tasks, pushed, cnt, n_printed,
          consumers, calls, remote, item_log, prefixes, container, enum,
          enum_pc, lock,
          added, lines, dataset, loaders, list_args, list_run>>

config == <<pipeline, input_file, access_tier, n_threads, producer_block_size,
            blobs_to_skip, verify_existence, verify_access_tier,
            execute_changes, force_tier_on_inferred_blobs>>

\* the state of the pipeline run itself
pipeline_run == <<main_pc, prod_pc, i_line, current_block, q,
                  unfinished_tasks, pushed, n_printed, consumers, calls>>

item_vars == <<remote, item_log>>
enum_vars == <<prefixes, container, enum, enum_pc, lock, added, lines>>
stream_vars == <<dataset, loaders>>
list_vars == <<list_args, list_run>>

\* what a run of the tier / delete pipeline leaves alone
elsewhere == <<item_vars, enum_vars, stream_vars, list_vars>>

\* the parts of the state that belong to other programs, not in use
ItemUnused == remote = "n/a" /\ item_log = <<>>
EnumUnused == /\ prefixes = <<>>
              /\ container = <<>>
              /\ enum = <<>>
              /\ enum_pc = "n/a"
              /\ lock = 0
              /\ added = 0
              /\ lines = <<>>
StreamUnused == dataset = "n/a" /\ loaders = <<>>
ListUnused == list_args = "n/a" /\ list_run = "n/a"

(* ------------------------------ helpers ------------------------------- *)

\* an optional argument: None, or a value
None == <<>>
Some(x) == <<x>>

\* A line is a sequence of one-character strings.
IsSpace(c) == c \in {" ", "\t", "\n"}

RECURSIVE LStrip(_)
LStrip(s) == IF s = <<>> THEN s
             ELSE IF IsSpace(Head(s)) THEN LStrip(Tail(s)) ELSE s

RECURSIVE RStrip(_)
RStrip(s) == IF s = <<>> THEN s
             ELSE IF IsSpace(s[Len(s)]) THEN RStrip(SubSeq(s, 1, Len(s) - 1))
             ELSE s

\* str.strip(): leading and trailing whitespace removed
Strip(s) == RStrip(LStrip(s))

\* The i-th line of a file names the i-th blob, or is blank.
BlobChar(i) == <<"a", "b", "c", "d", "e", "f", "g", "h">>[i]
PathLine(i) == <<" ", BlobChar(i), "\n">>
BlankLine == <<" ", "\n">>

FilesOfLen(n) ==
    { [i \in 1..n |-> IF i \in S THEN BlankLine ELSE PathLine(i)] :
        S \in { T \in SUBSET (1..n) : Cardinality(T) <= MaxBlank } }

InputFiles ==
    { [exists |-> TRUE, lines |-> f] :
        f \in UNION { FilesOfLen(n) : n \in 0..MaxLines } }
    \cup { [exists |-> FALSE, lines |-> <<>>] }

\* every item a file of the model can name
Items == { <<BlobChar(i)>> : i \in 1..(MaxLines + 1) }

RECURSIVE SumLen(_)
SumLen(blocks) == IF blocks = <<>> THEN 0
                  ELSE Len(Head(blocks)) + SumLen(Tail(blocks))

RECURSIVE Flatten(_)
Flatten(blocks) == IF blocks = <<>> THEN <<>>
                   ELSE Head(blocks) \o Flatten(Tail(blocks))

(* -------------------------- progress counter --------------------------- *)

\* whether this increment crosses the print threshold
BPrint(c, n) == ((c.val + n) - c.last_print) >= n_print

\* a Counter whose increment stores n instead of adding it
IncrementOverwrites(c, n) ==
    [val |-> n,
     last_print |-> IF (n - c.last_print) >= n_print THEN n ELSE c.last_print]

\* a Counter whose increment is lost
IncrementDropped(c, n) == c

\* Counter.increment(n), the part done under the lock
Increment(c, n) ==
    [val |-> c.val + n,
     last_print |-> IF BPrint(c, n) THEN c.val + n ELSE c.last_print]

\* Counter(total): val and last_print start at 0
NewCounter == [val |-> 0, last_print |-> 0]

(* ------------------------ the remote service -------------------------- *)

\* What the storage service answers to the calls made for one item; the
\* container client is the program's only view of it.
\*   exists : get_blob_properties() inside blob_exists
\*   props  : get_blob_properties() of the tier verification
\*   rehyd  : get_blob_properties() of the archive re-hydration check
\*   mutate : set_standard_blob_tier_blobs() / delete_blob()
PropsAnswers ==
    { [raises |-> TRUE, blob_tier |-> "None", tier_inferred |-> FALSE] }
    \cup { [raises |-> FALSE, blob_tier |-> t, tier_inferred |-> inf] :
             t \in valid_tiers \cup {"None", "Premium"}, inf \in BOOLEAN }

ContainerClients ==
    [exists : {"found", "not_found", "error"},
     props  : PropsAnswers,
     rehyd  : {"ok", "error"},
     mutate : {"ok", "error"}]

\* result of one per-item operation: did an exception escape it, did it
\* issue the mutating call, did that call succeed, what it printed
Outcome(r, i, o, l) == [raised |-> r, issued |-> i, changed |-> o, log |-> l]

(* ------------------------ per-item operations ------------------------- *)

\* blob_exists(): True, False (ResourceNotFoundError) or any other
\* exception of get_blob_properties(), which it does not catch
blob_exists(container_client, blob_path) == container_client.exists

\* a verification that never finds the blob at the wanted tier
AtTierNever(properties, tier) == FALSE

\* if tier == access_tier
AtTier(properties, tier) == properties.blob_tier = tier

\* a force flag that has no effect
ForceTierNever(properties) == FALSE

\* forcing whatever the flag says
ForceTierAlways(properties) == TRUE

\* force_tier = force_tier_on_inferred_blobs and properties['tier_inferred']
ForceTier(properties) ==
    force_tier_on_inferred_blobs /\ properties.tier_inferred

\* a verification whose errors go unnoticed
TierCheckFailsNever(properties) == FALSE

\* the try block of the verification raises: get_blob_properties() raises,
\* or one of the two asserts on the tier fails
TierCheckFails(properties) ==
    properties.raises \/ properties.blob_tier \notin valid_tiers

set_access_tier(container_client, blob_path, tier) ==
    LET p == container_client.props
        verify_failed == verify_access_tier /\ TierCheckFails(p)
        already == verify_access_tier /\ ~verify_failed /\ AtTier(p, tier)
        force_tier == ForceTier(p)
        vlog == IF verify_failed THEN {"Error verifying access tier"} ELSE {}
    IN  IF tier \notin valid_tiers
          THEN Outcome(TRUE, FALSE, FALSE, {})
        ELSE IF verify_existence
                /\ blob_exists(container_client, blob_path) = "error"
          THEN Outcome(TRUE, FALSE, FALSE, {})
        ELSE IF verify_existence
                /\ blob_exists(container_client, blob_path) = "not_found"
          THEN Outcome(FALSE, FALSE, FALSE, {"Warning: does not exist"})
        ELSE IF already /\ ~force_tier
          THEN Outcome(FALSE, FALSE, FALSE, {"Skipping, already at tier"})
        ELSE IF ~execute_changes
          THEN Outcome(FALSE, FALSE, FALSE, vlog)
        ELSE IF tier = "Archive" /\ container_client.rehyd = "error"
          THEN Outcome(FALSE, FALSE, FALSE, vlog)
        ELSE Outcome(FALSE, TRUE, container_client.mutate = "ok", vlog)

delete_blob(container_client, blob_path) ==
    IF verify_existence
       /\ blob_exists(container_client, blob_path) = "error"
      THEN Outcome(TRUE, FALSE, FALSE, {})
    ELSE IF verify_existence
            /\ blob_exists(container_client, blob_path) = "not_found"
      THEN Outcome(FALSE, FALSE, FALSE, {"Warning: does not exist"})
    ELSE IF ~execute_changes
      THEN Outcome(FALSE, FALSE, FALSE, {})
    ELSE Outcome(FALSE, TRUE, container_client.mutate = "ok", {})

per_item_operation(container_client, blob_path) ==
    IF pipeline = "tier"
      THEN set_access_tier(container_client, blob_path, access_tier)
      ELSE delete_blob(container_client, blob_path)

(* ------------------------------- queue -------------------------------- *)

\* "In blocks, not items"
max_queue_size == n_threads * 4

\* a queue that lets one block more in than maxsize
PutBlocksOneLate(queue) == Len(queue) > max_queue_size

\* Queue.put() blocks while the queue holds maxsize blocks
PutBlocks(queue) == Len(queue) >= max_queue_size

(* ------------------------------- Init --------------------------------- *)

Pipelines == {"tier", "delete"}

\* target tiers tried: a valid one and one that differs only in case
\* ("Tiers are case-sensitive")
AccessTiers == {"Archive", "archive"}

Init ==
    /\ pipeline \in Pipelines
    /\ input_file \in InputFiles
    /\ access_tier \in (IF pipeline = "tier" THEN AccessTiers ELSE {"n/a"})
    /\ n_threads \in 1..MaxThreads
    /\ producer_block_size \in 1..MaxBlockSize
    /\ blobs_to_skip \in 0..MaxSkip
    /\ verify_existence \in BOOLEAN
    /\ verify_access_tier = TRUE
    /\ execute_changes = TRUE
    /\ force_tier_on_inferred_blobs = FALSE
    \* the run starts at the command-line driver or at a direct call of
    \* parallel_set_access_tier / parallel_delete_blobs
    /\ main_pc \in {"cli", "call"}
    /\ prod_pc = "idle"
    /\ i_line = 0
    /\ current_block = <<>>
    /\ q = <<>>
    /\ unfinished_tasks = 0
    /\ pushed = <<>>
    /\ cnt = NewCounter
    /\ n_printed = 0
    /\ consumers = [w \in 1..n_threads |->
                      [pc |-> "unstarted", block |-> <<>>, idx |-> 0]]
    /\ calls = [it \in Items |-> 0]
    /\ ItemUnused
    /\ EnumUnused
    /\ StreamUnused
    /\ ListUnused

(* ---------------------------- main thread ----------------------------- *)

\* __main__: the asserts of the command-line driver, then the call
CommandLine ==
    /\ main_pc = "cli"
    /\ main_pc' = IF /\ input_file.exists
                     /\ (pipeline = "tier" => access_tier \in valid_tiers)
                    THEN "call" ELSE "raised"
    /\ UNCHANGED <<elsewhere, config, prod_pc, i_line, current_block, q,
                   unfinished_tasks, pushed, cnt, n_printed, consumers, calls>>

\* parallel_set_access_tier / parallel_delete_blobs up to the dispatch:
\* only the tier script asserts that the file exists
EntryAssertHolds == pipeline = "tier" => input_file.exists

ParallelEntry ==
    /\ main_pc = "call"
    /\ IF EntryAssertHolds
         THEN /\ main_pc' = "orchestrate"
              /\ cnt' = NewCounter
         ELSE /\ main_pc' = "raised"
              /\ cnt' = cnt
    /\ UNCHANGED <<elsewhere, config, prod_pc, i_line, current_block, q,
                   unfinished_tasks, pushed, n_printed, consumers, calls>>

\* parallel_*_threads / parallel_*_processes: create the queue and start
\* the producer thread
Orchestrate ==
    /\ main_pc = "orchestrate"
    /\ IF EntryAssertHolds
         THEN /\ main_pc' = "start_consumers"
              /\ q' = <<>>
              /\ unfinished_tasks' = 0
              /\ prod_pc' = "open"
         ELSE /\ main_pc' = "raised"
              /\ UNCHANGED <<q, unfinished_tasks, prod_pc>>
    /\ UNCHANGED <<elsewhere, config, i_line, current_block, pushed, cnt, n_printed,
                   consumers, calls>>

\* for i in range(n_threads): start consumer i
StartConsumer ==
    /\ main_pc = "start_consumers"
    /\ LET i == CHOOSE w \in DOMAIN consumers :
                  /\ consumers[w].pc = "unstarted"
                  /\ \A v \in DOMAIN consumers :
                        consumers[v].pc = "unstarted" => w <= v
       IN /\ consumers' = [consumers EXCEPT ![i].pc = "get"]
          /\ main_pc' = IF i = n_threads THEN "join_producer"
                        ELSE "start_consumers"
    /\ UNCHANGED <<elsewhere, config, prod_pc, i_line, current_block, q,
                   unfinished_tasks, pushed, cnt, n_printed, calls>>

\* a join that returns whether or not the thread has ended
TerminatedOrNot(pc) == TRUE

\* the thread has ended, by returning or by an exception
Terminated(pc) == pc \in {"finished", "crashed"}

\* producer.join(): returns once the producer thread has ended
JoinProducer ==
    /\ main_pc = "join_producer"
    /\ Terminated(prod_pc)
    /\ main_pc' = "join_queue"
    /\ UNCHANGED <<elsewhere, config, prod_pc, i_line, current_block, q,
                   unfinished_tasks, pushed, cnt, n_printed, consumers, calls>>

\* q.join(): returns once the count of unfinished blocks is zero
JoinQueue ==
    /\ main_pc = "join_queue"
    /\ unfinished_tasks = 0
    /\ main_pc' = "done"
    /\ UNCHANGED <<elsewhere, config, prod_pc, i_line, current_block, q,
                   unfinished_tasks, pushed, cnt, n_printed, consumers, calls>>

(* ------------------------------ producer ------------------------------ *)

\* a loop that leaves the file one line before its end
AfterLineOneEarly(n) ==
    IF n >= Len(input_file.lines) - 1 THEN "put_final" ELSE "read"

\* where the producer goes after a line: on to the next, or to the put of
\* the final block when the file is exhausted
AfterLine(n) == IF n = Len(input_file.lines) THEN "put_final" ELSE "read"

\* with open(input_file,'r'): a missing file ends the producer thread
ProducerOpen ==
    /\ prod_pc = "open"
    /\ prod_pc' = IF input_file.exists THEN AfterLine(0) ELSE "crashed"
    /\ UNCHANGED <<elsewhere, config, main_pc, i_line, current_block, q,
                   unfinished_tasks, pushed, cnt, n_printed, consumers, calls>>

\* one iteration of "for i_line, line in enumerate(f_in)"
ProducerLine ==
    /\ prod_pc = "read"
    /\ LET line == Strip(input_file.lines[i_line + 1])
           n_lines == IF blobs_to_skip > 0 THEN i_line - blobs_to_skip
                      ELSE i_line
           block == Append(current_block, line)
       IN /\ i_line' = i_line + 1
          /\ IF (blobs_to_skip > 0 /\ i_line < blobs_to_skip) \/ Len(line) = 0
               THEN /\ prod_pc' = AfterLine(i_line + 1)
                    /\ UNCHANGED <<current_block, cnt, n_printed>>
             ELSE IF debug_max_files > 0 /\ n_lines >= debug_max_files
               THEN /\ prod_pc' = "put_final"
                    /\ UNCHANGED <<current_block, cnt, n_printed>>
             ELSE IF Len(block) = producer_block_size
               THEN /\ current_block' = block
                    /\ cnt' = Increment(cnt, Len(block))
                    /\ n_printed' = IF BPrint(cnt, Len(block))
                                      THEN n_printed + 1 ELSE n_printed
                    /\ prod_pc' = "put_full"
             ELSE /\ current_block' = block
                  /\ prod_pc' = AfterLine(i_line + 1)
                  /\ UNCHANGED <<cnt, n_printed>>
    /\ UNCHANGED <<elsewhere, config, main_pc, q, unfinished_tasks, pushed, consumers,
                   calls>>

\* q.put(current_block) of a full block; current_block = []
ProducerPutFull ==
    /\ prod_pc = "put_full"
    /\ ~PutBlocks(q)
    /\ q' = Append(q, current_block)
    /\ unfinished_tasks' = unfinished_tasks + 1
    /\ pushed' = Append(pushed, current_block)
    /\ current_block' = <<>>
    /\ prod_pc' = AfterLine(i_line)
    /\ UNCHANGED <<elsewhere, config, main_pc, i_line, cnt, n_printed, consumers, calls>>

\* 'Queuing {} paths at termination': q.put(current_block), not counted
ProducerPutFinal ==
    /\ prod_pc = "put_final"
    /\ ~PutBlocks(q)
    /\ q' = Append(q, current_block)
    /\ unfinished_tasks' = unfinished_tasks + 1
    /\ pushed' = Append(pushed, current_block)
    /\ prod_pc' = "finished"
    /\ UNCHANGED <<elsewhere, config, main_pc, i_line, current_block, cnt, n_printed,
                   consumers, calls>>

(* ------------------------------ consumers ----------------------------- *)

\* the daemon consumers are torn down when the main thread has returned
Running == main_pc \notin {"done", "raised"}

\* consumer w exists and its thread / process is alive
Alive(w) == w \in DOMAIN consumers /\ Running

\* block = q.get()
ConsumerGet(w) ==
    /\ Alive(w)
    /\ consumers[w].pc = "get"
    /\ q # <<>>
    /\ q' = Tail(q)
    /\ consumers' = [consumers EXCEPT
                       ![w] = [pc |-> IF Len(Head(q)) = 0 THEN "task_done"
                                      ELSE "items",
                               block |-> Head(q), idx |-> 1]]
    /\ UNCHANGED <<elsewhere, config, main_pc, prod_pc, i_line, current_block,
                   unfinished_tasks, pushed, cnt, n_printed, calls>>

\* a consumer without the handler in either pipeline
AfterRaiseDies == "dead"

\* what an exception escaping the per-item operation does to the consumer:
\* the tier consumer catches it around the whole block and goes on to
\* task_done; the delete consumer has no handler and its thread ends
AfterRaise == IF pipeline = "tier" THEN "task_done" ELSE "dead"

\* a loop that walked the block from its last item to its first
NextItemFromEnd(c) == c.block[Len(c.block) - c.idx + 1]

\* for blob_path in blob_paths: the item the loop is at
NextItem(c) == c.block[c.idx]

\* one iteration of "for blob_path in block"
ConsumerItem(w) ==
    /\ Alive(w)
    /\ consumers[w].pc = "items"
    /\ LET c == consumers[w]
           blob_path == NextItem(c)
       IN \E r \in { per_item_operation(container_client, blob_path) :
                       container_client \in ContainerClients } :
            /\ calls' = [calls EXCEPT ![blob_path] = @ + 1]
            /\ consumers' = [consumers EXCEPT ![w] =
                 IF r.raised
                   THEN [c EXCEPT !.pc = AfterRaise]
                   ELSE [c EXCEPT !.idx = c.idx + 1,
                                  !.pc = IF c.idx = Len(c.block)
                                           THEN "task_done" ELSE "items"]]
    /\ UNCHANGED <<elsewhere, config, main_pc, prod_pc, i_line, current_block, q,
                   unfinished_tasks, pushed, cnt, n_printed>>

\* q.task_done()
ConsumerTaskDone(w) ==
    /\ Alive(w)
    /\ consumers[w].pc = "task_done"
    /\ unfinished_tasks' = unfinished_tasks - 1
    /\ consumers' = [consumers EXCEPT ![w] =
                       [pc |-> "get", block |-> <<>>, idx |-> 0]]
    /\ UNCHANGED <<elsewhere, config, main_pc, prod_pc, i_line, current_block, q,
                   pushed, cnt, n_printed, calls>>

(* ------------------------------- Next --------------------------------- *)

Main == \/ CommandLine
        \/ ParallelEntry
        \/ Orchestrate
        \/ StartConsumer
        \/ JoinProducer
        \/ JoinQueue

Producer == \/ ProducerOpen
            \/ ProducerLine
            \/ ProducerPutFull
            \/ ProducerPutFinal

Consumer(w) == \/ ConsumerGet(w)
               \/ ConsumerItem(w)
               \/ ConsumerTaskDone(w)

Next == \/ Main
        \/ Producer
        \/ \E w \in 1..MaxThreads : Consumer(w)

Spec == Init /\ [][Next]_vars

(* ------------------------- derived quantities ------------------------- *)

RECURSIVE SumOver(_, _)
SumOver(f, S) == IF S = {} THEN 0
                 ELSE LET x == CHOOSE y \in S : TRUE
                      IN f[x] + SumOver(f, S \ {x})

\* invocations of the per-item operation so far, over all items
TotalCalls == SumOver(calls, Items)

\* the non-blank lines of the input file
NonBlankLines ==
    { i \in 1..Len(input_file.lines) : Strip(input_file.lines[i]) # <<>> }

\* the items the producer has put on the queue, in put order
Enqueued == Flatten(pushed)
EnqueuedItems == { Enqueued[i] : i \in 1..Len(Enqueued) }

\* the items of the full blocks the producer has put on the queue
FullBlockItems ==
    SumLen(SelectSeq(pushed, LAMBDA b : Len(b) = producer_block_size))

\* consumers that hold a dequeued block and are still running
Holding == { w \in DOMAIN consumers : consumers[w].pc \in {"items", "task_done"} }

\* the line of the input file that names an item
FilePos(it) ==
    CHOOSE i \in 1..Len(input_file.lines) : Strip(input_file.lines[i]) = it

NoWorkerCreated ==
    /\ prod_pc = "idle"
    /\ \A w \in DOMAIN consumers : consumers[w].pc = "unstarted"

(* ------------------------------- claims ------------------------------- *)

\* C1 (as stated): when the run has finished (queue joined), the number of
\* per-item operation invocations equals the number of non-blank lines of the
\* file minus the skip-count.  Stated for the files whose skipped leading
\* lines all hold items, where skipping lines and skipping items agree.
C1_DispatchedEqualsNonBlankMinusSkip ==
    (main_pc = "done" /\ input_file.exists
       /\ 1..blobs_to_skip \subseteq NonBlankLines)
        => TotalCalls = Cardinality(NonBlankLines) - blobs_to_skip

\* C2 (as stated): no item is ever passed to the per-item operation more
\* than once, and when the run has finished every item the producer enqueued
\* has been passed to it exactly once.
C2_EveryItemExactlyOnce ==
    /\ \A it \in Items : calls[it] <= 1
    /\ main_pc = "done" => \A it \in EnqueuedItems : calls[it] = 1

C4_CounterEqualsItemsQueued ==
    prod_pc = "finished" => cnt.val = SumLen(pushed)

\* C4 (amended): the counter never decreases, and when the producer has
\* terminated it equals the number of items of the full blocks put on the
\* queue; the items of the final partial block are not counted.
C4_CounterCountsFullBlocks ==
    [][ /\ cnt'.val >= cnt.val
        /\ prod_pc' = "finished" => cnt'.val = FullBlockItems' ]_vars

\* C4 witness: the producer has terminated after putting full blocks and a
\* non-empty final partial block.
C4_FinishedWithPartialBlock ==
    /\ prod_pc = "finished"
    /\ cnt.val > 0
    /\ Len(pushed[Len(pushed)]) > 0

\* C5 (as stated): a failing item never ends the block or the worker: a
\* consumer reaches task_done only after every item of its block has been
\* passed to the per-item operation, and no consumer ever dies.
C5_FailureKeepsBlockAndWorker ==
    \A w \in DOMAIN consumers :
        /\ consumers[w].pc # "dead"
        /\ consumers[w].pc = "task_done"
              => consumers[w].idx = Len(consumers[w].block) + 1

\* C6 (as stated): the blocks marked done and the blocks held by running
\* consumers add up to the blocks dequeued, the unfinished count is never
\* negative, and a block is marked done only after all of its items have been
\* attempted.
C6_TaskDoneOncePerDequeuedBlock ==
    LET dequeued == Len(pushed) - Len(q)
        marked == Len(pushed) - unfinished_tasks
    IN /\ unfinished_tasks >= 0
       /\ marked + Cardinality(Holding) = dequeued
       /\ \A w \in Holding :
             consumers[w].pc = "task_done"
                => consumers[w].idx > Len(consumers[w].block)

\* C7 (as stated, in the form a finite run refutes): a run that has not
\* reached DONE (or raised at start-up) can always take a further step, so
\* that under fair scheduling it reaches DONE.
C7_RunNeverStuck == Running => ENABLED Next

\* C8 (as stated): when the queue join has returned, no block is in the
\* queue, every pushed block is marked done, no consumer holds a block and
\* every item of the pushed blocks has had its per-item operation.
C8_JoinedMeansAllItemsProcessed ==
    main_pc = "done" =>
        /\ q = <<>>
        /\ unfinished_tasks = 0
        /\ \A w \in DOMAIN consumers : consumers[w].pc \notin {"items", "task_done", "dead"}
        /\ \A it \in EnqueuedItems : calls[it] >= 1

\* C9 (as stated): with a missing input file the run raises before any
\* producer or consumer is created and no per-item operation is invoked.
C9_MissingFileAbortsBeforeWorkers ==
    ~input_file.exists =>
        /\ main_pc \in {"cli", "call", "raised"}
        /\ NoWorkerCreated
        /\ TotalCalls = 0

\* C10 (as stated): with a target tier outside valid_tiers the tier run
\* raises before any worker starts and before any block is enqueued.
C10_InvalidTierAbortsBeforeWorkers ==
    (pipeline = "tier" /\ access_tier \notin valid_tiers) =>
        /\ main_pc \in {"cli", "call", "raised"}
        /\ NoWorkerCreated
        /\ pushed = <<>>

\* C11: an I/O failure while the producer opens or reads the input file is
\* fatal to the run: the error reaches the caller and the run does not end
\* in the normal done state.
C11_ProducerIOFailureIsFatal == ~(prod_pc = "crashed" /\ main_pc = "done")

\* C15: a block lists its items in the order of their lines in the input
\* file, and the consumer that dequeued the block invokes the per-item
\* operation on them in that order: each invocation is on the item that
\* follows the ones already invoked for that block, and on no other item.
C15_ItemsInvokedInListOrder ==
    [][ \A w \in DOMAIN consumers :
          (consumers[w].pc = "items" /\ consumers'[w] # consumers[w]) =>
             LET c == consumers[w]
             IN /\ \A j \in 1..(Len(c.block) - 1) :
                      FilePos(c.block[j]) < FilePos(c.block[j + 1])
                /\ calls' = [calls EXCEPT ![c.block[c.idx]] = @ + 1]
                /\ \A j \in 1..(c.idx - 1) : calls[c.block[j]] >= 1
                /\ consumers'[w].pc = "items" =>
                      /\ consumers'[w].block = c.block
                      /\ consumers'[w].idx = c.idx + 1 ]_vars

\* a consumer has invoked the first item of a two-item block and is at the second
C15_SecondItemOfBlockNext ==
    \E w \in DOMAIN consumers :
        /\ consumers[w].pc = "items"
        /\ Len(consumers[w].block) = 2
        /\ consumers[w].idx = 2
        /\ calls[consumers[w].block[1]] = 1
        /\ calls[consumers[w].block[2]] = 0
(***************************************************************************)
(* set_access_tier called again and again on one blob.  The blob lives at  *)
(* the storage service; every call sees it through the answers the service *)
(* gives to that call, any of which may be an error.  A mutating call that *)
(* succeeds leaves the blob at the requested tier, set explicitly.         *)
(***************************************************************************)

\* the blob at the service: absent, or present at some tier
RemoteBlobs ==
    { [exists |-> FALSE, blob_tier |-> "None", tier_inferred |-> FALSE] }
    \cup { [exists |-> TRUE, blob_tier |-> t, tier_inferred |-> inf] :
             t \in valid_tiers \cup {"None", "Premium"}, inf \in BOOLEAN }

\* the properties the service reports for the blob
PropertiesOf(b) ==
    [raises |-> FALSE, blob_tier |-> b.blob_tier,
     tier_inferred |-> b.tier_inferred]

\* the answers the service can give to one call about blob b: the truth or
\* an error; calls on an absent blob fail
ClientsFor(b) ==
    { c \in ContainerClients :
        /\ c.exists \in {IF b.exists THEN "found" ELSE "not_found", "error"}
        /\ c.props.raises \/ (b.exists /\ c.props = PropertiesOf(b))
        /\ ~b.exists => (c.rehyd = "error" /\ c.mutate = "error") }

\* every remote call of a set_access_tier call, were it made, succeeds
AllSucceed(c) ==
    c.exists = "found" /\ ~c.props.raises /\ c.rehyd = "ok" /\ c.mutate = "ok"

\* the blob after a call that ended with outcome r
AfterCall(b, r, tier) ==
    IF r.issued /\ r.changed
      THEN [exists |-> TRUE, blob_tier |-> tier, tier_inferred |-> FALSE]
      ELSE b

\* target tiers tried on the single blob
ItemTiers == {"Hot", "Archive", "archive"}

ItemInit ==
    /\ pipeline = "tier"
    /\ access_tier \in ItemTiers
    /\ verify_existence \in BOOLEAN
    /\ verify_access_tier \in BOOLEAN
    /\ execute_changes \in BOOLEAN
    /\ force_tier_on_inferred_blobs \in BOOLEAN
    /\ remote \in RemoteBlobs
    /\ item_log = <<>>
    \* no pipeline runs
    /\ input_file = [exists |-> FALSE, lines |-> <<>>]
    /\ n_threads = 1
    /\ producer_block_size = 1
    /\ blobs_to_skip = 0
    /\ main_pc = "n/a"
    /\ prod_pc = "n/a"
    /\ i_line = 0
    /\ current_block = <<>>
    /\ q = <<>>
    /\ unfinished_tasks = 0
    /\ pushed = <<>>
    /\ cnt = NewCounter
    /\ n_printed = 0
    /\ consumers = <<>>
    /\ calls = [it \in Items |-> 0]
    /\ EnumUnused
    /\ StreamUnused
    /\ ListUnused

\* one call set_access_tier(container_client, blob_path, access_tier); the
\* log keeps the last two calls
SetAccessTierCall ==
    /\ remote \in RemoteBlobs
    /\ \E c \in ClientsFor(remote) :
         LET r == set_access_tier(c, <<"a">>, access_tier)
             e == [client |-> c, before |-> remote, outcome |-> r,
                   after |-> AfterCall(remote, r, access_tier)]
         IN /\ remote' = e.after
            /\ item_log' = IF Len(item_log) = 2
                              THEN <<item_log[2], e>>
                              ELSE Append(item_log, e)
    /\ UNCHANGED <<config, pipeline_run, cnt, enum_vars, stream_vars, list_vars>>

ItemNext == SetAccessTierCall

ItemSpec == ItemInit /\ [][ItemNext]_vars

\* the printed line of a skip
SkipLine == "Skipping, already at tier"

\* C12: with tier verification on, changes executed, the force flag off
\* and a valid target tier, two calls in succession whose remote calls all
\* succeed leave the blob as the first call left it, and the second call
\* issues no mutating call and prints the skip line.
C12_SecondCallIsSkip ==
    ( /\ Len(item_log) = 2
      /\ verify_access_tier /\ execute_changes
      /\ ~force_tier_on_inferred_blobs
      /\ access_tier \in valid_tiers
      /\ AllSucceed(item_log[1].client) /\ AllSucceed(item_log[2].client) )
    => /\ item_log[2].after = item_log[1].after
       /\ ~item_log[2].outcome.issued
       /\ SkipLine \in item_log[2].outcome.log

\* two calls were made under those conditions and the first changed the tier
C12_FirstCallChangedTier ==
    /\ Len(item_log) = 2
    /\ verify_access_tier /\ execute_changes
    /\ ~force_tier_on_inferred_blobs
    /\ access_tier \in valid_tiers
    /\ AllSucceed(item_log[1].client) /\ AllSucceed(item_log[2].client)
    /\ item_log[1].outcome.issued
    /\ item_log[1].before.blob_tier # item_log[1].after.blob_tier
\* the calls of the log made on a blob that was at the target tier
CallsAtTargetTier ==
    { i \in 1..Len(item_log) :
        /\ access_tier \in valid_tiers
        /\ item_log[i].before.exists
        /\ item_log[i].before.blob_tier = access_tier }

\* the state checks of a call succeeded: the existence check, when it is
\* made, found the blob, and the property fetch returned
ChecksSucceed(c) ==
    /\ verify_existence => c.exists = "found"
    /\ ~c.props.raises

\* C13 (as stated): with tier verification on and the force flag off, a
\* call on a blob whose remote tier equals the target tier issues no
\* mutating call, leaves the remote state unchanged and prints the skip
\* line.  Stated for the runs that execute changes.
C13_AtTargetTierIsSkipped ==
    (verify_access_tier /\ ~force_tier_on_inferred_blobs /\ execute_changes) =>
        \A i \in CallsAtTargetTier :
            /\ ~item_log[i].outcome.issued
            /\ item_log[i].after = item_log[i].before
            /\ SkipLine \in item_log[i].outcome.log

\* C13 (amended): the same, for the calls whose state checks succeed.
C13_AtTargetTierSeenIsSkipped ==
    (verify_access_tier /\ ~force_tier_on_inferred_blobs) =>
        \A i \in CallsAtTargetTier :
            ChecksSucceed(item_log[i].client) =>
                /\ ~item_log[i].outcome.issued
                /\ ~item_log[i].outcome.raised
                /\ item_log[i].after = item_log[i].before
                /\ SkipLine \in item_log[i].outcome.log

\* a call on a blob at the target tier was skipped although the service
\* would have failed the mutating call
C13_SkippedAtTargetTier ==
    /\ verify_access_tier /\ ~force_tier_on_inferred_blobs
    /\ execute_changes
    /\ \E i \in CallsAtTargetTier :
         /\ ChecksSucceed(item_log[i].client)
         /\ item_log[i].client.mutate = "error"
         /\ SkipLine \in item_log[i].outcome.log

\* C14 (as stated): with tier verification on and the force flag set, a
\* call on a blob that is at the target tier is not skipped: the mutating
\* call is issued.
C14_ForceFlagOverridesSkip ==
    (verify_access_tier /\ force_tier_on_inferred_blobs) =>
        \A i \in CallsAtTargetTier :
            /\ SkipLine \notin item_log[i].outcome.log
            /\ item_log[i].outcome.issued

\* C14 (amended): with tier verification on and the force flag set, a call
\* on a blob that is at the target tier and whose tier is inferred is not
\* skipped when its state checks succeed; with changes executed the
\* mutating call is issued, unless the property fetch of the archive
\* re-hydration check fails.  A blob whose tier is not inferred is skipped.
C14_ForceOverridesSkipOfInferredTier ==
    (verify_access_tier /\ force_tier_on_inferred_blobs) =>
        \A i \in CallsAtTargetTier :
            ChecksSucceed(item_log[i].client) =>
                IF item_log[i].before.tier_inferred
                  THEN /\ SkipLine \notin item_log[i].outcome.log
                       /\ item_log[i].outcome.issued <=>
                            /\ execute_changes
                            /\ access_tier = "Archive" =>
                                  item_log[i].client.rehyd = "ok"
                  ELSE /\ SkipLine \in item_log[i].outcome.log
                       /\ ~item_log[i].outcome.issued

\* the force flag made a call set the tier of a blob that was at that tier
C14_ForcedOnInferredTier ==
    /\ verify_access_tier /\ force_tier_on_inferred_blobs
    /\ \E i \in CallsAtTargetTier :
         /\ item_log[i].before.tier_inferred
         /\ ChecksSucceed(item_log[i].client)
         /\ item_log[i].outcome.issued
         /\ item_log[i].outcome.changed
         /\ ~item_log[i].after.tier_inferred
(***************************************************************************)
(* parallel_enumerate_blobs.py: one thread / process per prefix of the     *)
(* prefix list; each writes the listing of its prefix, page by page, to    *)
(* the output file named after the prefix and adds the size of every page  *)
(* to the shared Counter.                                                  *)
(***************************************************************************)

\* characters of a prefix: a letter, the folder separator, a letter with an
\* accent
PrefixChars == {"a", "/", "é"}

RECURSIVE StringsOfLen(_)
StringsOfLen(n) ==
    IF n = 0 THEN {<<>>}
    ELSE { Append(t, c) : t \in StringsOfLen(n - 1), c \in PrefixChars }

\* the lines a prefix file can hold, stripped; a blank line gives ''
PrefixStrings == UNION { StringsOfLen(n) : n \in 0..MaxPrefixLen }

\* unicodedata.normalize('NFKD', c): an accented letter becomes the letter
\* followed by the combining accent
NFKD(c) == IF c = "é" THEN <<"e", "U+0301">> ELSE <<c>>

RECURSIVE Normalize(_)
Normalize(str) == IF str = <<>> THEN <<>>
                  ELSE NFKD(Head(str)) \o Normalize(Tail(str))

\* .encode('ASCII', 'ignore').decode(): characters outside ASCII are dropped
IsAscii(c) == c \notin {"é", "U+0301"}

\* "~-_.() " + ascii_letters + digits
valid_filename_chars ==
    {"~", "-", "_", ".", "(", ")", " "}
    \cup {"a", "b", "c", "d", "e", "f", "g", "h", "A", "B"}
    \cup {"0", "1", "2"}

\* path_utils.clean_filename(filename)
clean_filename(filename) ==
    LET ascii == SelectSeq(Normalize(filename), IsAscii)
        cleaned == SelectSeq(ascii, LAMBDA c : c \in valid_filename_chars)
    IN  SubSeq(cleaned, 1, IF Len(cleaned) < char_limit
                             THEN Len(cleaned) ELSE char_limit)

\* os.path.join(output_folder, fn): the folder itself when fn is empty
OutputFile(fn) == <<"output_folder", fn>>
IsFolder(path) == path[2] = <<>>

\* sizes of the pages of a listing
PageCounts == {0, n_blobs_per_page \div 2, n_blobs_per_page}

Listings == UNION { [1..n -> PageCounts] : n \in 1..MaxPages }

NewWorker == [pc |-> "unstarted", output_file |-> <<>>, page |-> 0, i_blob |-> 0,
              n_blobs_this_page |-> 0, tmp |-> 0, b_print |-> FALSE]
\* neither pipeline runs
PipelineUnused ==
    /\ pipeline = "n/a"
    /\ input_file = [exists |-> FALSE, lines |-> <<>>]
    /\ access_tier = "n/a"
    /\ n_threads = 1
    /\ producer_block_size = 1
    /\ blobs_to_skip = 0
    /\ verify_existence = FALSE
    /\ verify_access_tier = FALSE
    /\ execute_changes = FALSE
    /\ force_tier_on_inferred_blobs = FALSE
    /\ main_pc = "n/a"
    /\ prod_pc = "n/a"
    /\ i_line = 0
    /\ current_block = <<>>
    /\ q = <<>>
    /\ unfinished_tasks = 0
    /\ pushed = <<>>
    /\ n_printed = 0
    /\ consumers = <<>>
    /\ calls = [it \in Items |-> 0]

\* the threads / processes a run can have: one per line of the prefix file
EnumWorkers == 1..2

\* thread i exists and is at position pc of enumerate_prefix
At(i, pc) == i \in DOMAIN enum /\ enum[i].pc = pc

\* enumerate_blobs called with the prefix list and the container given
EnumStartState ==
    /\ enum = [i \in DOMAIN prefixes |-> NewWorker]
    /\ enum_pc = "start"
    /\ cnt = NewCounter
    /\ lock = 0
    /\ added = 0
    /\ lines = <<>>
    /\ PipelineUnused
    /\ ItemUnused
    /\ StreamUnused
    /\ ListUnused

\* a prefix file of two lines, any prefixes; every listing is one full page
EnumInit ==
    /\ prefixes \in [EnumWorkers -> PrefixStrings]
    /\ container = [i \in EnumWorkers |-> <<n_blobs_per_page>>]
    /\ EnumStartState

\* one or two plain prefixes, any listings
CounterInit ==
    /\ prefixes \in {<<(<<"a">>)>>, <<(<<"a">>), (<<"a", "a">>)>>}
    /\ container \in [DOMAIN prefixes -> Listings]
    /\ EnumStartState

\* enumerate_blobs_threads / _processes: start the next thread
StartPrefix ==
    /\ enum_pc = "start"
    /\ LET unstarted == { i \in DOMAIN enum : enum[i].pc = "unstarted" }
           i == CHOOSE k \in unstarted : \A l \in unstarted : k <= l
       IN /\ unstarted # {}
          /\ enum' = [enum EXCEPT ![i].pc = "open"]
          /\ enum_pc' = IF unstarted = {i} THEN "join" ELSE "start"
    /\ UNCHANGED <<config, pipeline_run, cnt, item_vars, stream_vars,
                   list_vars, prefixes, container, lock, added, lines>>

\* for t in all_threads: t.join()
JoinAll ==
    /\ enum_pc = "join"
    /\ \A i \in DOMAIN enum : enum[i].pc \in {"finished", "crashed"}
    /\ enum_pc' = "done"
    /\ UNCHANGED <<config, pipeline_run, cnt, item_vars, stream_vars,
                   list_vars, prefixes, container, enum, lock, added, lines>>

\* enumerate_prefix up to open(output_file, 'w'), which fails on a folder
EnumOpen(i) ==
    /\ At(i, "open")
    /\ LET output_file == OutputFile(clean_filename(prefixes[i]))
       IN enum' = [enum EXCEPT ![i].output_file = output_file,
                               ![i].pc = IF IsFolder(output_file)
                                           THEN "crashed" ELSE "page"]
    /\ UNCHANGED <<config, pipeline_run, cnt, item_vars, stream_vars,
                   list_vars, prefixes, container, enum_pc, lock, added, lines>>

\* one page of the listing: every blob of it is written to the output file
EnumPage(i) ==
    /\ At(i, "page")
    /\ LET n == container[i][enum[i].page + 1]
       IN enum' = [enum EXCEPT ![i].page = @ + 1,
                               ![i].i_blob = @ + n,
                               ![i].n_blobs_this_page = n,
                               ![i].pc = "acquire"]
    /\ UNCHANGED <<config, pipeline_run, cnt, item_vars, stream_vars,
                   list_vars, prefixes, container, enum_pc, lock, added, lines>>

\* a lock that is handed out while it is held
LockFreeAlways(l) == TRUE

\* with self.val.get_lock(): waits until the lock is free
LockFree(l) == l = 0

\* cnt.increment(n=n_blobs_this_page): entering the with block
EnumAcquire(i) ==
    /\ At(i, "acquire")
    /\ LockFree(lock)
    /\ lock' = i
    /\ added' = added + enum[i].n_blobs_this_page
    /\ enum' = [enum EXCEPT ![i].pc = "load"]
    /\ UNCHANGED <<config, pipeline_run, cnt, item_vars, stream_vars,
                   list_vars, prefixes, container, enum_pc, lines>>

\* self.val.value += n: the read
EnumLoad(i) ==
    /\ At(i, "load")
    /\ enum' = [enum EXCEPT ![i].tmp = cnt.val, ![i].pc = "store"]
    /\ UNCHANGED <<config, pipeline_run, cnt, item_vars, stream_vars,
                   list_vars, prefixes, container, enum_pc, lock, added, lines>>

\* self.val.value += n: the write
EnumStore(i) ==
    /\ At(i, "store")
    /\ cnt' = [cnt EXCEPT !.val = enum[i].tmp + enum[i].n_blobs_this_page]
    /\ enum' = [enum EXCEPT ![i].pc = "check"]
    /\ UNCHANGED <<config, pipeline_run, item_vars, stream_vars,
                   list_vars, prefixes, container, enum_pc, lock, added, lines>>

\* a loop that ends after its first page
AfterIncrementStopsEarly(i) == "finished"

\* while continuation_token is not None
AfterIncrement(i) ==
    IF enum[i].page < Len(container[i]) THEN "page" ELSE "finished"

\* a threshold that has to be passed, not only reached
CrossesStrictly(c) == c.val - c.last_print > enumerate_n_print

\* if ((self.val.value - self.last_print.value) >= n_print)
Crosses(c) == c.val - c.last_print >= enumerate_n_print

\* the threshold test, still under the lock, and the end of the with block
EnumCheck(i) ==
    /\ At(i, "check")
    /\ LET b_print == Crosses(cnt)
       IN /\ cnt' = IF b_print THEN [cnt EXCEPT !.last_print = cnt.val]
                               ELSE cnt
          /\ enum' = [enum EXCEPT ![i].b_print = b_print,
                                  ![i].pc = IF b_print THEN "print"
                                            ELSE AfterIncrement(i)]
    /\ lock' = 0
    /\ UNCHANGED <<config, pipeline_run, item_vars, stream_vars,
                   list_vars, prefixes, container, enum_pc, added, lines>>

\* if b_print: print(... self.val.value ...), after the lock is released
EnumPrint(i) ==
    /\ At(i, "print")
    /\ lines' = Append(lines,
                   [shown |-> cnt.val,
                    stored |-> enum[i].tmp + enum[i].n_blobs_this_page])
    /\ enum' = [enum EXCEPT ![i].pc = AfterIncrement(i)]
    /\ UNCHANGED <<config, pipeline_run, cnt, item_vars, stream_vars,
                   list_vars, prefixes, container, enum_pc, lock, added>>

EnumWorker(i) == \/ EnumOpen(i)
                 \/ EnumPage(i)
                 \/ EnumAcquire(i)
                 \/ EnumLoad(i)
                 \/ EnumStore(i)
                 \/ EnumCheck(i)
                 \/ EnumPrint(i)

EnumNext == \/ StartPrefix
            \/ JoinAll
            \/ \E i \in EnumWorkers : EnumWorker(i)

EnumSpec == EnumInit /\ [][EnumNext]_vars

CounterSpec == CounterInit /\ [][EnumNext]_vars
\* threads inside an increment call
Incrementing ==
    { i \in DOMAIN enum : enum[i].pc \in {"load", "store", "check", "print"} }

\* the values of the progress lines emitted or about to be: what each
\* emitting call stored in last_print
LinesEmitted ==
    { lines[k].stored : k \in 1..Len(lines) }
    \cup { enum[i].tmp + enum[i].n_blobs_this_page :
             i \in { j \in DOMAIN enum : enum[j].pc = "print" } }

\* C16: increment is atomic under concurrent use.  Whenever no increment
\* call is in progress the value is the sum of the n of all calls made; a
\* line is emitted by exactly the calls that bring value - last_print to
\* the threshold: each line stands for one such crossing, successive
\* crossings are at least the threshold apart, last_print is the value of
\* the latest crossing and, with the lock free, value - last_print is
\* below the threshold.
C16_IncrementIsAtomic ==
    /\ Incrementing = {} => cnt.val = added
    /\ lock = 0 => /\ cnt.val - cnt.last_print >= 0
                   /\ cnt.val - cnt.last_print < enumerate_n_print
    /\ Cardinality(LinesEmitted) =
         Len(lines) + Cardinality({ i \in DOMAIN enum : enum[i].pc = "print" })
    /\ \A x \in LinesEmitted :
         /\ x >= enumerate_n_print
         /\ x <= cnt.last_print
         /\ \A y \in LinesEmitted : x < y => y - x >= enumerate_n_print
    /\ cnt.last_print # 0 => cnt.last_print \in LinesEmitted

\* two threads have incremented the counter, lines were printed and the
\* run has ended
C16_TwoWorkersDoneWithLines ==
    /\ enum_pc = "done"
    /\ Len(prefixes) = 2
    /\ \A i \in DOMAIN enum : enum[i].pc = "finished" /\ enum[i].i_blob > 0
    /\ Len(lines) >= 1
    /\ cnt.val = added
    /\ cnt.val > cnt.last_print

\* threads between open(output_file, 'w') and the end of the with block
InFile == { i \in DOMAIN enum :
              enum[i].pc \in {"page", "acquire", "load", "store", "check", "print"} }

\* C18: the workers started for two distinct prefixes write to two
\* distinct output files: no two of them have the same file open at the
\* same time.
C18_DistinctPrefixesDistinctFiles ==
    \A i, j \in InFile :
        prefixes[i] # prefixes[j] => enum[i].output_file # enum[j].output_file
(***************************************************************************)
(* geospatial/data/StreamingDatasets.py: a StreamingGeospatialDataset      *)
(* iterated by a DataLoader.  Every DataLoader worker is a process with    *)
(* its own copy of the dataset and runs stream_tile_fns on that copy.      *)
(***************************************************************************)

TileName(i) == <<"tile_a", "tile_b", "tile_c", "tile_d", "tile_e">>[i]

\* lists of distinct tiles
ImageryFns == { [i \in 1..n |-> TileName(i)] : n \in 0..MaxTiles }

\* groups: None, or a list of integers of the same size as imagery_fns
GroupIds == {0, 1}
GroupsFor(imagery_fns) ==
    {None} \cup { Some(g) : g \in [1..Len(imagery_fns) -> GroupIds] }

\* np.random.shuffle(self.fns): any order of the same elements
Shuffles(fns) ==
    { [i \in 1..Len(fns) |-> fns[p[i]]] :
        p \in { f \in [1..Len(fns) -> 1..Len(fns)] :
                  \A i, j \in 1..Len(fns) : f[i] = f[j] => i = j } }

\* int(np.ceil(N / num_workers))
CeilDiv(N, num_workers) == (N + num_workers - 1) \div num_workers

\* min(N, x)
Min(a, b) == IF a < b THEN a ELSE b

\* the worker ids a DataLoader can hand out
WorkerIds == 0..(MaxLoaders - 1)

StreamInit ==
    /\ \E imagery_fns \in ImageryFns :
         dataset \in [imagery_fns : {imagery_fns},
                      groups : GroupsFor(imagery_fns),
                      num_workers : 1..MaxLoaders]
    \* each worker process starts from a copy of the dataset
    /\ loaders = [worker_id \in 0..(dataset.num_workers - 1) |->
                    [pc |-> "start", fns |-> dataset.imagery_fns,
                     idx |-> 0, upper_idx |-> 0, yielded |-> <<>>]]
    /\ cnt = NewCounter
    /\ PipelineUnused
    /\ ItemUnused
    /\ EnumUnused
    /\ ListUnused

\* stream_tile_fns up to the for loop: worker 0 shuffles its list, every
\* worker computes its range
StreamStart(worker_id) ==
    /\ worker_id \in DOMAIN loaders
    /\ loaders[worker_id].pc = "start"
    /\ \E fns \in (IF worker_id = 0 THEN Shuffles(loaders[worker_id].fns)
                                    ELSE {loaders[worker_id].fns}) :
         LET N == Len(fns)
             num_files_per_worker == CeilDiv(N, dataset.num_workers)
             lower_idx == worker_id * num_files_per_worker
             upper_idx == Min(N, (worker_id + 1) * num_files_per_worker)
         IN loaders' = [loaders EXCEPT ![worker_id] =
                          [pc |-> "loop", fns |-> fns, idx |-> lower_idx,
                           upper_idx |-> upper_idx, yielded |-> <<>>]]
    /\ UNCHANGED <<config, pipeline_run, cnt, item_vars, enum_vars,
                   list_vars, dataset>>

\* group = self.groups[idx] if self.groups is not None else None
GroupAt(groups, idx) ==
    IF groups = None THEN None ELSE Some(groups[1][idx + 1])

\* for idx in range(lower_idx, upper_idx): yield (img_fn, label_fn, group),
\* img_fn = self.fns[idx]; the dataset has no label_fns
StreamYield(worker_id) ==
    /\ worker_id \in DOMAIN loaders
    /\ loaders[worker_id].pc = "loop"
    /\ loaders[worker_id].idx < loaders[worker_id].upper_idx
    /\ LET idx == loaders[worker_id].idx
           img_fn == loaders[worker_id].fns[idx + 1]
           group == GroupAt(dataset.groups, idx)
       IN loaders' = [loaders EXCEPT
                        ![worker_id].yielded =
                           Append(@, [img_fn |-> img_fn, label_fn |-> None,
                                      group |-> group]),
                        ![worker_id].idx = @ + 1]
    /\ UNCHANGED <<config, pipeline_run, cnt, item_vars, enum_vars,
                   list_vars, dataset>>

\* the range is exhausted: the generator ends
StreamEnd(worker_id) ==
    /\ worker_id \in DOMAIN loaders
    /\ loaders[worker_id].pc = "loop"
    /\ loaders[worker_id].idx >= loaders[worker_id].upper_idx
    /\ loaders' = [loaders EXCEPT ![worker_id].pc = "exhausted"]
    /\ UNCHANGED <<config, pipeline_run, cnt, item_vars, enum_vars,
                   list_vars, dataset>>

stream_tile_fns(worker_id) == \/ StreamStart(worker_id)
                              \/ StreamYield(worker_id)
                              \/ StreamEnd(worker_id)

StreamNext == \E worker_id \in WorkerIds : stream_tile_fns(worker_id)

StreamSpec == StreamInit /\ [][StreamNext]_vars

\* the tiles a worker has yielded
TilesOf(worker_id) ==
    { loaders[worker_id].yielded[k].img_fn :
        k \in 1..Len(loaders[worker_id].yielded) }

\* C19: with more than one worker, the sets of tiles the workers yield are
\* pairwise disjoint and, when every worker has ended its pass, contain
\* every tile of imagery_fns exactly once.
C19_WorkersPartitionTiles ==
    dataset.num_workers > 1 =>
        /\ \A v, w \in DOMAIN loaders : v # w => TilesOf(v) \cap TilesOf(w) = {}
        /\ (\A w \in DOMAIN loaders : loaders[w].pc = "exhausted") =>
              /\ UNION { TilesOf(w) : w \in DOMAIN loaders } =
                   { dataset.imagery_fns[k] : k \in 1..Len(dataset.imagery_fns) }
              /\ \A w \in DOMAIN loaders :
                   Cardinality(TilesOf(w)) = Len(loaders[w].yielded)
(***************************************************************************)
(* sas_blob_utils.list_blobs_in_container: the names of the blobs of a     *)
(* container, filtered by prefix, suffix and regular expression, cut at    *)
(* limit, sorted.                                                          *)
(***************************************************************************)

\* blob names: strings of upper- and lower-case letters
BlobNames == { <<"a">>, <<"B">>, <<"a", "B">>, <<"b", "a">>, <<"A", "b">> }

\* the listings of a container: distinct names in the order the service
\* returns them
RECURSIVE ListingsOfLen(_)
ListingsOfLen(n) ==
    IF n = 0 THEN {<<>>}
    ELSE { Append(l, b) : l \in ListingsOfLen(n - 1), b \in BlobNames }

IsInjective(l) == \A i, j \in 1..Len(l) : l[i] = l[j] => i = j

ContainerListings ==
    { l \in UNION { ListingsOfLen(n) : n \in 0..MaxBlobs } : IsInjective(l) }

\* str.lower()
LowerChar(c) == IF c = "A" THEN "a" ELSE IF c = "B" THEN "b" ELSE c
Lower(str) == [i \in 1..Len(str) |-> LowerChar(str[i])]

\* str.startswith / str.endswith
StartsWith(str, pre) ==
    Len(pre) <= Len(str) /\ SubSeq(str, 1, Len(pre)) = pre
EndsWith(str, suf) ==
    Len(suf) <= Len(str) /\ SubSeq(str, Len(str) - Len(suf) + 1, Len(str)) = suf

\* the regular expressions tried: a literal, free or anchored with '^'
Patterns == { [anchored |-> a, literal |-> <<"a">>] : a \in BOOLEAN }

\* re.search(rsearch, name) is not None
ReSearch(rsearch, name) ==
    IF rsearch.anchored
      THEN StartsWith(name, rsearch.literal)
      ELSE \E k \in 0..Len(name) :
             StartsWith(SubSeq(name, k + 1, Len(name)), rsearch.literal)

\* code points, for the order of str
Ord(c) == CASE c = "A" -> 65 [] c = "B" -> 66 [] c = "a" -> 97 [] c = "b" -> 98

\* s < t on str
RECURSIVE StrLess(_, _)
StrLess(str, t) ==
    IF t = <<>> THEN FALSE
    ELSE IF str = <<>> THEN TRUE
    ELSE IF Head(str) # Head(t) THEN Ord(Head(str)) < Ord(Head(t))
    ELSE StrLess(Tail(str), Tail(t))

\* sorted(list_blobs), by insertion
RECURSIVE Insert(_, _)
Insert(x, l) ==
    IF l = <<>> THEN <<x>>
    ELSE IF StrLess(Head(l), x) THEN <<Head(l)>> \o Insert(x, Tail(l))
    ELSE <<x>> \o l

RECURSIVE Sorted(_)
Sorted(l) == IF l = <<>> THEN <<>> ELSE Insert(Head(l), Sorted(Tail(l)))


ListInit ==
    /\ list_args \in [blobs : ContainerListings,
                       blob_prefix : {None, Some(<<"a">>)},
                       blob_suffix : {None, Some(<<"b">>)},
                       rsearch : {None} \cup { Some(r) : r \in Patterns },
                       limit : {None} \cup { Some(n) : n \in 1..MaxLimit }]
    /\ list_run = [pc |-> "start", generator |-> <<>>, pos |-> 0,
                   list_blobs |-> <<>>, i |-> 0, result |-> <<>>]
    /\ cnt = NewCounter
    /\ PipelineUnused
    /\ ItemUnused
    /\ EnumUnused
    /\ StreamUnused

\* container_client.list_blobs(name_starts_with=blob_prefix)
Generator ==
    IF list_args.blob_prefix = None THEN list_args.blobs
    ELSE SelectSeq(list_args.blobs,
                   LAMBDA name : StartsWith(name, list_args.blob_prefix[1]))

Unfiltered == list_args.blob_suffix = None /\ list_args.rsearch = None

\* if blob_suffix is None and rsearch is None: every name of the listing
ListAll ==
    /\ list_run.pc = "start"
    /\ Unfiltered
    /\ list_run' = [list_run EXCEPT !.generator = Generator,
                                    !.list_blobs = Generator,
                                    !.i = Len(Generator),
                                    !.pos = Len(Generator),
                                    !.pc = "sort"]
    /\ UNCHANGED <<config, pipeline_run, cnt, item_vars, enum_vars,
                   stream_vars, list_args>>

\* else: i = 0 and the for loop is entered
ListFiltered ==
    /\ list_run.pc = "start"
    /\ ~Unfiltered
    /\ list_run' = [list_run EXCEPT !.generator = Generator, !.pc = "loop"]
    /\ UNCHANGED <<config, pipeline_run, cnt, item_vars, enum_vars,
                   stream_vars, list_args>>

\* one iteration of "for blob in generator"
ListLoop ==
    /\ list_run.pc = "loop"
    /\ list_run.pos < Len(list_run.generator)
    /\ LET name == list_run.generator[list_run.pos + 1]
           suffix_ok == \/ list_args.blob_suffix = None
                        \/ EndsWith(Lower(name), list_args.blob_suffix[1])
           regex_ok == \/ list_args.rsearch = None
                       \/ ReSearch(list_args.rsearch[1], name)
           appended == IF suffix_ok /\ regex_ok
                         THEN Append(list_run.list_blobs, name)
                         ELSE list_run.list_blobs
           break == /\ suffix_ok /\ regex_ok
                    /\ list_args.limit # None
                    /\ Len(appended) = list_args.limit[1]
       IN list_run' = [list_run EXCEPT !.pos = @ + 1,
                                       !.i = @ + 1,
                                       !.list_blobs = appended,
                                       !.pc = IF break THEN "sort" ELSE "loop"]
    /\ UNCHANGED <<config, pipeline_run, cnt, item_vars, enum_vars,
                   stream_vars, list_args>>

\* the generator is exhausted
ListLoopEnd ==
    /\ list_run.pc = "loop"
    /\ list_run.pos >= Len(list_run.generator)
    /\ list_run' = [list_run EXCEPT !.pc = "sort"]
    /\ UNCHANGED <<config, pipeline_run, cnt, item_vars, enum_vars,
                   stream_vars, list_args>>

\* return sorted(list_blobs)
ListReturn ==
    /\ list_run.pc = "sort"
    /\ list_run' = [list_run EXCEPT !.result = Sorted(list_run.list_blobs),
                                    !.pc = "returned"]
    /\ UNCHANGED <<config, pipeline_run, cnt, item_vars, enum_vars,
                   stream_vars, list_args>>

ListNext == \/ ListAll
            \/ ListFiltered
            \/ ListLoop
            \/ ListLoopEnd
            \/ ListReturn

ListSpec == ListInit /\ [][ListNext]_vars

\* a list in the order of sorted()
IsSorted(l) == \A k \in 1..(Len(l) - 1) : ~StrLess(l[k + 1], l[k])

\* C20: called with limit = L, list_blobs_in_container returns a sorted
\* list of at most L blob names, whatever the filters and the container.
C20_SortedAndAtMostLimit ==
    (list_run.pc = "returned" /\ list_args.limit # None) =>
        /\ IsSorted(list_run.result)
        /\ Len(list_run.result) <= list_args.limit[1]
(* --------------------- the pipelines, further claims ------------------- *)

\* the stripped non-blank lines of the input file that come after the
\* first blobs_to_skip lines, in file order
RECURSIVE StrippedNonBlank(_)
StrippedNonBlank(ls) ==
    IF ls = <<>> THEN <<>>
    ELSE IF Strip(Head(ls)) = <<>> THEN StrippedNonBlank(Tail(ls))
    ELSE <<Strip(Head(ls))>> \o StrippedNonBlank(Tail(ls))

ItemsAfterSkip ==
    StrippedNonBlank(SubSeq(input_file.lines, blobs_to_skip + 1,
                            Len(input_file.lines)))

\* C21: when the producer has finished, it has pushed floor(N / B) + 1
\* blocks for the N items of the input and block size B: every block but
\* the last holds B items, the last holds N mod B, and the blocks
\* concatenated in push order are the stripped non-blank lines after the
\* skip-count, in file order.
C21_BlocksPartitionTheInput ==
    prod_pc = "finished" =>
        LET N == Len(ItemsAfterSkip)
            B == producer_block_size
        IN /\ Len(pushed) = (N \div B) + 1
           /\ \A k \in 1..(Len(pushed) - 1) : Len(pushed[k]) = B
           /\ Len(pushed[Len(pushed)]) = N % B
           /\ Flatten(pushed) = ItemsAfterSkip

\* the producer has finished a file with a skipped line and a blank line
\* after it: one full block and an empty last block
C21_FinishedWithFullAndEmptyBlock ==
    /\ prod_pc = "finished"
    /\ blobs_to_skip = 1
    /\ Len(ItemsAfterSkip) < Len(input_file.lines) - 1
    /\ producer_block_size = 2
    /\ Len(pushed) = 2
    /\ Len(pushed[1]) = 2
    /\ pushed[2] = <<>>

\* the position of an item among the items put on the queue
EnqueuedPos(it) == CHOOSE k \in 1..Len(Enqueued) : Enqueued[k] = it

\* C22: the producer adds the size of a full block to the counter before
\* it puts the block on the queue: the counter is never below the items of
\* the full blocks enqueued, an item of a full block is processed only
\* when the counter has reached its block, and no step of a consumer
\* changes the counter.
C22_CountedBeforeQueued ==
    /\ [](cnt.val >= FullBlockItems)
    /\ [](\A it \in EnqueuedItems :
            (calls[it] > 0 /\ EnqueuedPos(it) <= FullBlockItems) =>
               cnt.val >= ((EnqueuedPos(it) - 1) \div producer_block_size + 1)
                            * producer_block_size)
    /\ [][consumers' # consumers => cnt' = cnt]_vars

\* the counter already holds a second full block that is not yet on the
\* queue, while a consumer processes an item of the first
C22_CountedBlockNotYetQueued ==
    /\ prod_pc = "put_full"
    /\ FullBlockItems > 0
    /\ cnt.val = FullBlockItems + producer_block_size
    /\ \E it \in EnqueuedItems : calls[it] > 0
\* C26: the main thread is at the queue join, or past it, only when the
\* producer thread has ended: the join never returns while the producer
\* still reads the file or has a block to put.
C26_QueueJoinAfterProducerEnd ==
    main_pc \in {"join_queue", "done"} =>
        /\ prod_pc \notin {"idle", "open", "read", "put_full", "put_final"}
        /\ prod_pc = "finished" => Flatten(pushed) = ItemsAfterSkip

\* the main thread waits for the producer at a moment when every block
\* put so far is marked done and the producer has more to put
C26_QueueEmptyWhileProducerRuns ==
    /\ main_pc = "join_producer"
    /\ pushed # <<>>
    /\ q = <<>>
    /\ unfinished_tasks = 0
    /\ prod_pc \in {"read", "put_full", "put_final"}

\* C28: in the tier pipeline an exception that escapes set_access_tier
\* ends the block, not the consumer: no consumer dies, every dequeued
\* block is marked done once (blocks marked and blocks held add up to the
\* blocks dequeued), the consumer returns to the queue, and the run can
\* always go on until the queue join has returned.
C28_TierExceptionEndsBlockOnly ==
    pipeline = "tier" =>
        LET dequeued == Len(pushed) - Len(q)
            marked == Len(pushed) - unfinished_tasks
        IN /\ \A w \in DOMAIN consumers : consumers[w].pc # "dead"
           /\ unfinished_tasks >= 0
           /\ marked + Cardinality(Holding) = dequeued
           /\ (main_pc = "join_queue" /\ q = <<>> /\ Holding = {})
                 => unfinished_tasks = 0
           /\ Running => ENABLED Next

\* a tier consumer is about to mark done a block that an exception cut
\* short
C28_BlockCutShortByException ==
    /\ pipeline = "tier"
    /\ \E w \in DOMAIN consumers :
         /\ consumers[w].pc = "task_done"
         /\ consumers[w].block # <<>>
         /\ consumers[w].idx <= Len(consumers[w].block)
\* a run in dry-run mode: execute_changes = False in the tier script,
\* execute_deletions = False in the delete script
DryRunInit ==
    /\ pipeline \in Pipelines
    /\ input_file \in InputFiles
    /\ access_tier \in (IF pipeline = "tier" THEN AccessTiers ELSE {"n/a"})
    /\ n_threads \in 1..MaxThreads
    /\ producer_block_size \in 1..MaxBlockSize
    /\ blobs_to_skip \in 0..MaxSkip
    /\ verify_existence \in BOOLEAN
    /\ verify_access_tier = TRUE
    /\ execute_changes = FALSE
    /\ force_tier_on_inferred_blobs = FALSE
    /\ main_pc \in {"cli", "call"}
    /\ prod_pc = "idle"
    /\ i_line = 0
    /\ current_block = <<>>
    /\ q = <<>>
    /\ unfinished_tasks = 0
    /\ pushed = <<>>
    /\ cnt = NewCounter
    /\ n_printed = 0
    /\ consumers = [w \in 1..n_threads |->
                      [pc |-> "unstarted", block |-> <<>>, idx |-> 0]]
    /\ calls = [it \in Items |-> 0]
    /\ ItemUnused
    /\ EnumUnused
    /\ StreamUnused
    /\ ListUnused

DryRunSpec == DryRunInit /\ [][Next]_vars

\* the per-item operations issue no mutating call when changes are not
\* executed, whatever the service answers
NoMutatingCall ==
    \A container_client \in ContainerClients, blob_path \in Items :
        LET r == per_item_operation(container_client, blob_path)
        IN ~r.issued /\ ~r.changed

\* C23: in dry-run mode no mutating call is issued for any item, and every
\* block is still dequeued and marked done: no consumer ends with a block
\* in hand, the run can always go on until the queue join has returned,
\* and then every block pushed is marked done.
C23_DryRunMarksEveryBlock ==
    ~execute_changes =>
        /\ NoMutatingCall
        /\ \A w \in DOMAIN consumers : consumers[w].pc # "dead"
        /\ Running => ENABLED Next
        /\ main_pc = "done" => (q = <<>> /\ unfinished_tasks = 0)

(* ------------- an error while the tier is being verified -------------- *)

\* the calls of the log whose tier verification was reached and failed:
\* the property fetch raised, or the tier it returned is missing or is not
\* one of the valid tiers
CallsFailingVerification ==
    { i \in 1..Len(item_log) :
        /\ verify_access_tier
        /\ access_tier \in valid_tiers
        /\ verify_existence => item_log[i].client.exists = "found"
        /\ \/ item_log[i].client.props.raises
           \/ item_log[i].client.props.blob_tier \notin valid_tiers }

\* C27 (as stated): a call whose tier verification fails is not skipped:
\* the error is logged and, unless dry-run is on, the mutating call is
\* issued.
C27_VerifyErrorStillIssuesCall ==
    \A i \in CallsFailingVerification :
        /\ SkipLine \notin item_log[i].outcome.log
        /\ "Error verifying access tier" \in item_log[i].outcome.log
        /\ execute_changes => item_log[i].outcome.issued

\* C27 (amended): a call whose tier verification fails is not skipped and
\* the error is logged; the mutating call is issued exactly when changes
\* are executed and, for the target Archive, the property fetch of the
\* re-hydration check does not raise.
C27_VerifyErrorIssuesCallUnlessRehydFails ==
    \A i \in CallsFailingVerification :
        /\ SkipLine \notin item_log[i].outcome.log
        /\ ~item_log[i].outcome.raised
        /\ "Error verifying access tier" \in item_log[i].outcome.log
        /\ item_log[i].outcome.issued <=>
             /\ execute_changes
             /\ access_tier = "Archive" => item_log[i].client.rehyd = "ok"

\* the verification of a call failed on an unrecognised tier and the call
\* went on to change the tier of the blob
C27_ChangedAfterVerifyError ==
    \E i \in CallsFailingVerification :
        /\ ~item_log[i].client.props.raises
        /\ item_log[i].before.blob_tier = "Premium"
        /\ item_log[i].outcome.issued
        /\ item_log[i].outcome.changed
        /\ item_log[i].after.blob_tier = access_tier


(* ---------------- enumerate_prefix: pages and the counter -------------- *)

\* blobs of the first n pages of a listing
RECURSIVE BlobsInPages(_, _)
BlobsInPages(listing, n) ==
    IF n = 0 THEN 0 ELSE listing[n] + BlobsInPages(listing, n - 1)

\* blobs thread i has passed to cnt.increment; the page it has just
\* written is counted once the call has started
Counted(i) ==
    enum[i].i_blob - (IF enum[i].pc = "acquire"
                         THEN enum[i].n_blobs_this_page ELSE 0)

\* C24: enumerate_prefix asks for pages until the service returns no
\* continuation token and then ends; it has then written every blob of
\* every page of the listing once (i_blob lines, one per blob), and the
\* shared counter has been incremented by the number of blobs written:
\* with no increment call in progress the counter is the number of blobs
\* written by all threads.
C24_EveryListedBlobWrittenAndCounted ==
    /\ \A i \in DOMAIN enum :
         /\ enum[i].page <= Len(container[i])
         /\ enum[i].pc = "page" => enum[i].page < Len(container[i])
         /\ enum[i].i_blob = BlobsInPages(container[i], enum[i].page)
         /\ enum[i].pc = "finished" =>
               /\ enum[i].page = Len(container[i])
               /\ enum[i].i_blob =
                    BlobsInPages(container[i], Len(container[i]))
    /\ Incrementing = {} =>
         cnt.val = SumOver([i \in DOMAIN enum |-> Counted(i)], DOMAIN enum)
    /\ (\A i \in DOMAIN enum : enum[i].pc = "finished") =>
         cnt.val = SumOver([i \in DOMAIN enum |->
                              BlobsInPages(container[i], Len(container[i]))],
                           DOMAIN enum)

\* two threads have each enumerated a listing of two pages, the second
\* page partly filled, and have ended
C24_TwoListingsOfTwoPagesDone ==
    /\ Len(prefixes) = 2
    /\ \A i \in DOMAIN enum :
         /\ enum[i].pc = "finished"
         /\ container[i] = <<n_blobs_per_page, n_blobs_per_page \div 2>>
         /\ enum[i].i_blob = n_blobs_per_page + n_blobs_per_page \div 2
    /\ cnt.val = 3 * n_blobs_per_page


(* ------------------------- the progress lines -------------------------- *)

\* C29: whatever the interleaving of the increment calls, the value a
\* progress line shows is the value its call stored into last_print, so
\* the values of successive lines are strictly increasing.
C29_LineShowsStoredValue ==
    /\ \A k \in 1..Len(lines) : lines[k].shown = lines[k].stored
    /\ \A k \in 1..Len(lines) : \A l \in 1..Len(lines) :
          k < l => lines[k].shown < lines[l].shown

\* threads that have left the with block and are about to print
Printing == { i \in DOMAIN enum : enum[i].pc = "print" }

\* C30: whenever no increment call holds the lock, last_print <= value
\* and 0 <= value - last_print < n_print; the progress lines emitted, and
\* those about to be, are at most floor(value / n_print), as every one of
\* them moved last_print up by n_print or more.
C30_LinesBoundedByValue ==
    /\ lock = 0 => /\ cnt.last_print <= cnt.val
                   /\ 0 <= cnt.val - cnt.last_print
                   /\ cnt.val - cnt.last_print < enumerate_n_print
    /\ (Len(lines) + Cardinality(Printing)) * enumerate_n_print
         <= cnt.last_print
    /\ cnt.last_print <= cnt.val
    /\ Len(lines) <= cnt.val \div enumerate_n_print
    /\ enum_pc = "done" => Len(lines) <= added \div enumerate_n_print

\* a run has ended with as many lines as the final value allows, the
\* lock free and the value short of the next threshold
C30_AsManyLinesAsValueAllows ==
    /\ enum_pc = "done"
    /\ lock = 0
    /\ Len(lines) = 1
    /\ cnt.val \div enumerate_n_print = 1
    /\ cnt.last_print = enumerate_n_print
    /\ cnt.val - cnt.last_print = n_blobs_per_page \div 2


(* ------------------------- groups of the tiles ------------------------- *)

\* the index of a tile in the imagery_fns passed to the constructor
IndexOf(img_fn) ==
    CHOOSE i \in 1..Len(dataset.imagery_fns) : dataset.imagery_fns[i] = img_fn

\* C25: when the dataset is constructed with groups, every triple yielded
\* by stream_tile_fns carries the group the caller gave for its tile:
\* group = groups[i], i the index of img_fn in imagery_fns, in every
\* worker.
C25_YieldedGroupIsGroupOfTile ==
    dataset.groups # None =>
        \A w \in DOMAIN loaders :
            \A k \in 1..Len(loaders[w].yielded) :
                loaders[w].yielded[k].group =
                    Some(dataset.groups[1][IndexOf(loaders[w].yielded[k].img_fn)])

====
